---------------------------- MODULE Spec2Model ----------------------------
(***************************************************************************)
(* A model of extract_financial_metrics.py: parse_amount, the line-window  *)
(* scan_for_number and extract_metrics_from_text.                          *)
(*                                                                         *)
(* A Python str is the sequence of its code points (ord of each            *)
(* character); Str("...") writes one from its printable ASCII text.  The   *)
(* character classes are those of CPython 3.11 (Unicode 14).               *)
(*                                                                         *)
(* A float is an IEEE 754 double: [s, m, e] is (-1)^s * m * 2^e with m an  *)
(* odd natural number (or 0 with e = 0), [inf |-> s] an infinity and       *)
(* [nan |-> TRUE] a NaN.  m is a natural number of any size, written as    *)
(* the sequence of its digits in base 2^15, the lowest first.  Every       *)
(* operation rounds to nearest, ties to even, as the hardware does.        *)
(* Optional[float] is a float or None; a local variable that has not been  *)
(* assigned yet holds Unbound.                                             *)
(***************************************************************************)
EXTENDS Integers, Sequences, FiniteSets, TLC

VARIABLES pc, text, flat_text, metrics, lines, i, k, amount, value,
          start_index, total_expenses, margin, result

vars == <<pc, text, flat_text, metrics, lines, i, k, amount, value,
          start_index, total_expenses, margin, result>>

---------------------------------------------------------------------------
(* Characters *)

\* the printable ASCII characters 32-33, 35-91, 93-95 and 97-126
Ascii32 == " !"
Ascii35 == "#$%&'()*+,-./0123456789:;<=>?@ABCDEFGHIJKLMNOPQRSTUVWXYZ["
Ascii93 == "]^_"
Ascii97 == "abcdefghijklmnopqrstuvwxyz{|}~"

\* the places of the one-character string ch in the string run
PlacesIn(run, ch) == {n \in 1..Len(run) : SubSeq(run, n, n) = ch}

\* ord(ch) of a printable ASCII character other than the double quote, the
\* backslash and the grave accent
ord(ch) ==
    IF PlacesIn(Ascii32, ch) # {} THEN 31 + CHOOSE n \in PlacesIn(Ascii32, ch) : TRUE
    ELSE IF PlacesIn(Ascii35, ch) # {} THEN 34 + CHOOSE n \in PlacesIn(Ascii35, ch) : TRUE
    ELSE IF PlacesIn(Ascii93, ch) # {} THEN 92 + CHOOSE n \in PlacesIn(Ascii93, ch) : TRUE
    ELSE 96 + CHOOSE n \in PlacesIn(Ascii97, ch) : TRUE

\* the str with the text of the TLA+ string s
Str(s) == [j \in 1..Len(s) |-> ord(SubSeq(s, j, j))]

\* str.isspace(): the class \s of a str pattern and what str.strip() removes
Whitespace ==
    (9..13) \cup (28..32) \cup {133, 160, 5760} \cup (8192..8202)
    \cup {8232, 8233, 8239, 8287, 12288}

IsSpace(c) == c \in Whitespace

\* the characters that end a line for str.splitlines()
LineBoundaries == (10..13) \cup (28..30) \cup {133, 8232, 8233}

\* the character class [\$€¥£]
Currency == {36, 8364, 165, 163}

\* the code point of the digit zero of every run of ten decimal digits (\d
\* of a str pattern, and the digits float() reads)
DigitZeros ==
    {48, 1632, 1776, 1984, 2406, 2534, 2662, 2790, 2918, 3046,
     3174, 3302, 3430, 3558, 3664, 3792, 3872, 4160, 4240, 6112,
     6160, 6470, 6608, 6784, 6800, 6992, 7088, 7232, 7248, 42528,
     43216, 43264, 43472, 43504, 43600, 44016, 65296, 66720, 68912, 69734,
     69872, 69942, 70096, 70384, 70736, 70864, 71248, 71360, 71472, 71904,
     72016, 72784, 73040, 73120, 92768, 92864, 93008, 120782, 120792, 120802,
     120812, 120822, 123200, 123632, 125264, 130032}

\* str.lower() of one character where it is another single character: the
\* characters lo, lo + step, ..., hi map to themselves plus delta
\* (<<lo, hi, step, delta>>)
LowerRuns ==
    {<<65, 90, 1, 32>>, <<192, 214, 1, 32>>, <<216, 222, 1, 32>>,
     <<256, 302, 2, 1>>, <<306, 310, 2, 1>>, <<313, 327, 2, 1>>,
     <<330, 374, 2, 1>>, <<376, 376, 1, -121>>, <<377, 381, 2, 1>>,
     <<385, 385, 1, 210>>, <<386, 388, 2, 1>>, <<390, 390, 1, 206>>,
     <<391, 391, 1, 1>>, <<393, 394, 1, 205>>, <<395, 395, 1, 1>>,
     <<398, 398, 1, 79>>, <<399, 399, 1, 202>>, <<400, 400, 1, 203>>,
     <<401, 401, 1, 1>>, <<403, 403, 1, 205>>, <<404, 404, 1, 207>>,
     <<406, 406, 1, 211>>, <<407, 407, 1, 209>>, <<408, 408, 1, 1>>,
     <<412, 412, 1, 211>>, <<413, 413, 1, 213>>, <<415, 415, 1, 214>>,
     <<416, 420, 2, 1>>, <<422, 422, 1, 218>>, <<423, 423, 1, 1>>,
     <<425, 425, 1, 218>>, <<428, 428, 1, 1>>, <<430, 430, 1, 218>>,
     <<431, 431, 1, 1>>, <<433, 434, 1, 217>>, <<435, 437, 2, 1>>,
     <<439, 439, 1, 219>>, <<440, 440, 1, 1>>, <<444, 444, 1, 1>>,
     <<452, 452, 1, 2>>, <<453, 453, 1, 1>>, <<455, 455, 1, 2>>,
     <<456, 456, 1, 1>>, <<458, 458, 1, 2>>, <<459, 475, 2, 1>>,
     <<478, 494, 2, 1>>, <<497, 497, 1, 2>>, <<498, 500, 2, 1>>,
     <<502, 502, 1, -97>>, <<503, 503, 1, -56>>, <<504, 542, 2, 1>>,
     <<544, 544, 1, -130>>, <<546, 562, 2, 1>>, <<570, 570, 1, 10795>>,
     <<571, 571, 1, 1>>, <<573, 573, 1, -163>>, <<574, 574, 1, 10792>>,
     <<577, 577, 1, 1>>, <<579, 579, 1, -195>>, <<580, 580, 1, 69>>,
     <<581, 581, 1, 71>>, <<582, 590, 2, 1>>, <<880, 882, 2, 1>>,
     <<886, 886, 1, 1>>, <<895, 895, 1, 116>>, <<902, 902, 1, 38>>,
     <<904, 906, 1, 37>>, <<908, 908, 1, 64>>, <<910, 911, 1, 63>>,
     <<913, 929, 1, 32>>, <<932, 939, 1, 32>>, <<975, 975, 1, 8>>,
     <<984, 1006, 2, 1>>, <<1012, 1012, 1, -60>>, <<1015, 1015, 1, 1>>,
     <<1017, 1017, 1, -7>>, <<1018, 1018, 1, 1>>, <<1021, 1023, 1, -130>>,
     <<1024, 1039, 1, 80>>, <<1040, 1071, 1, 32>>, <<1120, 1152, 2, 1>>,
     <<1162, 1214, 2, 1>>, <<1216, 1216, 1, 15>>, <<1217, 1229, 2, 1>>,
     <<1232, 1326, 2, 1>>, <<1329, 1366, 1, 48>>, <<4256, 4293, 1, 7264>>,
     <<4295, 4295, 1, 7264>>, <<4301, 4301, 1, 7264>>, <<5024, 5103, 1, 38864>>,
     <<5104, 5109, 1, 8>>, <<7312, 7354, 1, -3008>>, <<7357, 7359, 1, -3008>>,
     <<7680, 7828, 2, 1>>, <<7838, 7838, 1, -7615>>, <<7840, 7934, 2, 1>>,
     <<7944, 7951, 1, -8>>, <<7960, 7965, 1, -8>>, <<7976, 7983, 1, -8>>,
     <<7992, 7999, 1, -8>>, <<8008, 8013, 1, -8>>, <<8025, 8031, 2, -8>>,
     <<8040, 8047, 1, -8>>, <<8072, 8079, 1, -8>>, <<8088, 8095, 1, -8>>,
     <<8104, 8111, 1, -8>>, <<8120, 8121, 1, -8>>, <<8122, 8123, 1, -74>>,
     <<8124, 8124, 1, -9>>, <<8136, 8139, 1, -86>>, <<8140, 8140, 1, -9>>,
     <<8152, 8153, 1, -8>>, <<8154, 8155, 1, -100>>, <<8168, 8169, 1, -8>>,
     <<8170, 8171, 1, -112>>, <<8172, 8172, 1, -7>>, <<8184, 8185, 1, -128>>,
     <<8186, 8187, 1, -126>>, <<8188, 8188, 1, -9>>, <<8486, 8486, 1, -7517>>,
     <<8490, 8490, 1, -8383>>, <<8491, 8491, 1, -8262>>, <<8498, 8498, 1, 28>>,
     <<8544, 8559, 1, 16>>, <<8579, 8579, 1, 1>>, <<9398, 9423, 1, 26>>,
     <<11264, 11311, 1, 48>>, <<11360, 11360, 1, 1>>, <<11362, 11362, 1, -10743>>,
     <<11363, 11363, 1, -3814>>, <<11364, 11364, 1, -10727>>, <<11367, 11371, 2, 1>>,
     <<11373, 11373, 1, -10780>>, <<11374, 11374, 1, -10749>>, <<11375, 11375, 1, -10783>>,
     <<11376, 11376, 1, -10782>>, <<11378, 11378, 1, 1>>, <<11381, 11381, 1, 1>>,
     <<11390, 11391, 1, -10815>>, <<11392, 11490, 2, 1>>, <<11499, 11501, 2, 1>>,
     <<11506, 11506, 1, 1>>, <<42560, 42604, 2, 1>>, <<42624, 42650, 2, 1>>,
     <<42786, 42798, 2, 1>>, <<42802, 42862, 2, 1>>, <<42873, 42875, 2, 1>>,
     <<42877, 42877, 1, -35332>>, <<42878, 42886, 2, 1>>, <<42891, 42891, 1, 1>>,
     <<42893, 42893, 1, -42280>>, <<42896, 42898, 2, 1>>, <<42902, 42920, 2, 1>>,
     <<42922, 42922, 1, -42308>>, <<42923, 42923, 1, -42319>>, <<42924, 42924, 1, -42315>>,
     <<42925, 42925, 1, -42305>>, <<42926, 42926, 1, -42308>>, <<42928, 42928, 1, -42258>>,
     <<42929, 42929, 1, -42282>>, <<42930, 42930, 1, -42261>>, <<42931, 42931, 1, 928>>,
     <<42932, 42946, 2, 1>>, <<42948, 42948, 1, -48>>, <<42949, 42949, 1, -42307>>,
     <<42950, 42950, 1, -35384>>, <<42951, 42953, 2, 1>>, <<42960, 42960, 1, 1>>,
     <<42966, 42968, 2, 1>>, <<42997, 42997, 1, 1>>, <<65313, 65338, 1, 32>>,
     <<66560, 66599, 1, 40>>, <<66736, 66771, 1, 40>>, <<66928, 66938, 1, 39>>,
     <<66940, 66954, 1, 39>>, <<66956, 66962, 1, 39>>, <<66964, 66965, 1, 39>>,
     <<68736, 68786, 1, 64>>, <<71840, 71871, 1, 32>>, <<93760, 93791, 1, 32>>,
     <<125184, 125217, 1, 34>>}

\* the cased characters that are not case-ignorable, as ranges <<lo, hi>>
CasedRanges ==
    {<<65, 90>>, <<97, 122>>, <<170, 170>>, <<181, 181>>, <<186, 186>>,
     <<192, 214>>, <<216, 246>>, <<248, 442>>, <<444, 447>>, <<452, 659>>,
     <<661, 687>>, <<880, 883>>, <<886, 887>>, <<891, 893>>, <<895, 895>>,
     <<902, 902>>, <<904, 906>>, <<908, 908>>, <<910, 929>>, <<931, 1013>>,
     <<1015, 1153>>, <<1162, 1327>>, <<1329, 1366>>, <<1376, 1416>>, <<4256, 4293>>,
     <<4295, 4295>>, <<4301, 4301>>, <<4304, 4346>>, <<4349, 4351>>, <<5024, 5109>>,
     <<5112, 5117>>, <<7296, 7304>>, <<7312, 7354>>, <<7357, 7359>>, <<7424, 7467>>,
     <<7531, 7543>>, <<7545, 7578>>, <<7680, 7957>>, <<7960, 7965>>, <<7968, 8005>>,
     <<8008, 8013>>, <<8016, 8023>>, <<8025, 8025>>, <<8027, 8027>>, <<8029, 8029>>,
     <<8031, 8061>>, <<8064, 8116>>, <<8118, 8124>>, <<8126, 8126>>, <<8130, 8132>>,
     <<8134, 8140>>, <<8144, 8147>>, <<8150, 8155>>, <<8160, 8172>>, <<8178, 8180>>,
     <<8182, 8188>>, <<8450, 8450>>, <<8455, 8455>>, <<8458, 8467>>, <<8469, 8469>>,
     <<8473, 8477>>, <<8484, 8484>>, <<8486, 8486>>, <<8488, 8488>>, <<8490, 8493>>,
     <<8495, 8500>>, <<8505, 8505>>, <<8508, 8511>>, <<8517, 8521>>, <<8526, 8526>>,
     <<8544, 8575>>, <<8579, 8580>>, <<9398, 9449>>, <<11264, 11387>>, <<11390, 11492>>,
     <<11499, 11502>>, <<11506, 11507>>, <<11520, 11557>>, <<11559, 11559>>, <<11565, 11565>>,
     <<42560, 42605>>, <<42624, 42651>>, <<42786, 42863>>, <<42865, 42887>>, <<42891, 42894>>,
     <<42896, 42954>>, <<42960, 42961>>, <<42963, 42963>>, <<42965, 42969>>, <<42997, 42998>>,
     <<43002, 43002>>, <<43824, 43866>>, <<43872, 43880>>, <<43888, 43967>>, <<64256, 64262>>,
     <<64275, 64279>>, <<65313, 65338>>, <<65345, 65370>>, <<66560, 66639>>, <<66736, 66771>>,
     <<66776, 66811>>, <<66928, 66938>>, <<66940, 66954>>, <<66956, 66962>>, <<66964, 66965>>,
     <<66967, 66977>>, <<66979, 66993>>, <<66995, 67001>>, <<67003, 67004>>, <<68736, 68786>>,
     <<68800, 68850>>, <<71840, 71903>>, <<93760, 93823>>, <<119808, 119892>>, <<119894, 119964>>,
     <<119966, 119967>>, <<119970, 119970>>, <<119973, 119974>>, <<119977, 119980>>, <<119982, 119993>>,
     <<119995, 119995>>, <<119997, 120003>>, <<120005, 120069>>, <<120071, 120074>>, <<120077, 120084>>,
     <<120086, 120092>>, <<120094, 120121>>, <<120123, 120126>>, <<120128, 120132>>, <<120134, 120134>>,
     <<120138, 120144>>, <<120146, 120485>>, <<120488, 120512>>, <<120514, 120538>>, <<120540, 120570>>,
     <<120572, 120596>>, <<120598, 120628>>, <<120630, 120654>>, <<120656, 120686>>, <<120688, 120712>>,
     <<120714, 120744>>, <<120746, 120770>>, <<120772, 120779>>, <<122624, 122633>>, <<122635, 122654>>,
     <<125184, 125251>>, <<127280, 127305>>, <<127312, 127337>>, <<127344, 127369>>}

\* the case-ignorable characters, as ranges <<lo, hi>>
CaseIgnorableRanges ==
    {<<39, 39>>, <<46, 46>>, <<58, 58>>, <<94, 94>>, <<96, 96>>,
     <<168, 168>>, <<173, 173>>, <<175, 175>>, <<180, 180>>, <<183, 184>>,
     <<688, 879>>, <<884, 885>>, <<890, 890>>, <<900, 901>>, <<903, 903>>,
     <<1155, 1161>>, <<1369, 1369>>, <<1375, 1375>>, <<1425, 1469>>, <<1471, 1471>>,
     <<1473, 1474>>, <<1476, 1477>>, <<1479, 1479>>, <<1524, 1524>>, <<1536, 1541>>,
     <<1552, 1562>>, <<1564, 1564>>, <<1600, 1600>>, <<1611, 1631>>, <<1648, 1648>>,
     <<1750, 1757>>, <<1759, 1768>>, <<1770, 1773>>, <<1807, 1807>>, <<1809, 1809>>,
     <<1840, 1866>>, <<1958, 1968>>, <<2027, 2037>>, <<2042, 2042>>, <<2045, 2045>>,
     <<2070, 2093>>, <<2137, 2139>>, <<2184, 2184>>, <<2192, 2193>>, <<2200, 2207>>,
     <<2249, 2306>>, <<2362, 2362>>, <<2364, 2364>>, <<2369, 2376>>, <<2381, 2381>>,
     <<2385, 2391>>, <<2402, 2403>>, <<2417, 2417>>, <<2433, 2433>>, <<2492, 2492>>,
     <<2497, 2500>>, <<2509, 2509>>, <<2530, 2531>>, <<2558, 2558>>, <<2561, 2562>>,
     <<2620, 2620>>, <<2625, 2626>>, <<2631, 2632>>, <<2635, 2637>>, <<2641, 2641>>,
     <<2672, 2673>>, <<2677, 2677>>, <<2689, 2690>>, <<2748, 2748>>, <<2753, 2757>>,
     <<2759, 2760>>, <<2765, 2765>>, <<2786, 2787>>, <<2810, 2815>>, <<2817, 2817>>,
     <<2876, 2876>>, <<2879, 2879>>, <<2881, 2884>>, <<2893, 2893>>, <<2901, 2902>>,
     <<2914, 2915>>, <<2946, 2946>>, <<3008, 3008>>, <<3021, 3021>>, <<3072, 3072>>,
     <<3076, 3076>>, <<3132, 3132>>, <<3134, 3136>>, <<3142, 3144>>, <<3146, 3149>>,
     <<3157, 3158>>, <<3170, 3171>>, <<3201, 3201>>, <<3260, 3260>>, <<3263, 3263>>,
     <<3270, 3270>>, <<3276, 3277>>, <<3298, 3299>>, <<3328, 3329>>, <<3387, 3388>>,
     <<3393, 3396>>, <<3405, 3405>>, <<3426, 3427>>, <<3457, 3457>>, <<3530, 3530>>,
     <<3538, 3540>>, <<3542, 3542>>, <<3633, 3633>>, <<3636, 3642>>, <<3654, 3662>>,
     <<3761, 3761>>, <<3764, 3772>>, <<3782, 3782>>, <<3784, 3789>>, <<3864, 3865>>,
     <<3893, 3893>>, <<3895, 3895>>, <<3897, 3897>>, <<3953, 3966>>, <<3968, 3972>>,
     <<3974, 3975>>, <<3981, 3991>>, <<3993, 4028>>, <<4038, 4038>>, <<4141, 4144>>,
     <<4146, 4151>>, <<4153, 4154>>, <<4157, 4158>>, <<4184, 4185>>, <<4190, 4192>>,
     <<4209, 4212>>, <<4226, 4226>>, <<4229, 4230>>, <<4237, 4237>>, <<4253, 4253>>,
     <<4348, 4348>>, <<4957, 4959>>, <<5906, 5908>>, <<5938, 5939>>, <<5970, 5971>>,
     <<6002, 6003>>, <<6068, 6069>>, <<6071, 6077>>, <<6086, 6086>>, <<6089, 6099>>,
     <<6103, 6103>>, <<6109, 6109>>, <<6155, 6159>>, <<6211, 6211>>, <<6277, 6278>>,
     <<6313, 6313>>, <<6432, 6434>>, <<6439, 6440>>, <<6450, 6450>>, <<6457, 6459>>,
     <<6679, 6680>>, <<6683, 6683>>, <<6742, 6742>>, <<6744, 6750>>, <<6752, 6752>>,
     <<6754, 6754>>, <<6757, 6764>>, <<6771, 6780>>, <<6783, 6783>>, <<6823, 6823>>,
     <<6832, 6862>>, <<6912, 6915>>, <<6964, 6964>>, <<6966, 6970>>, <<6972, 6972>>,
     <<6978, 6978>>, <<7019, 7027>>, <<7040, 7041>>, <<7074, 7077>>, <<7080, 7081>>,
     <<7083, 7085>>, <<7142, 7142>>, <<7144, 7145>>, <<7149, 7149>>, <<7151, 7153>>,
     <<7212, 7219>>, <<7222, 7223>>, <<7288, 7293>>, <<7376, 7378>>, <<7380, 7392>>,
     <<7394, 7400>>, <<7405, 7405>>, <<7412, 7412>>, <<7416, 7417>>, <<7468, 7530>>,
     <<7544, 7544>>, <<7579, 7679>>, <<8125, 8125>>, <<8127, 8129>>, <<8141, 8143>>,
     <<8157, 8159>>, <<8173, 8175>>, <<8189, 8190>>, <<8203, 8207>>, <<8216, 8217>>,
     <<8228, 8228>>, <<8231, 8231>>, <<8234, 8238>>, <<8288, 8292>>, <<8294, 8303>>,
     <<8305, 8305>>, <<8319, 8319>>, <<8336, 8348>>, <<8400, 8432>>, <<11388, 11389>>,
     <<11503, 11505>>, <<11631, 11631>>, <<11647, 11647>>, <<11744, 11775>>, <<11823, 11823>>,
     <<12293, 12293>>, <<12330, 12333>>, <<12337, 12341>>, <<12347, 12347>>, <<12441, 12446>>,
     <<12540, 12542>>, <<40981, 40981>>, <<42232, 42237>>, <<42508, 42508>>, <<42607, 42610>>,
     <<42612, 42621>>, <<42623, 42623>>, <<42652, 42655>>, <<42736, 42737>>, <<42752, 42785>>,
     <<42864, 42864>>, <<42888, 42890>>, <<42994, 42996>>, <<43000, 43001>>, <<43010, 43010>>,
     <<43014, 43014>>, <<43019, 43019>>, <<43045, 43046>>, <<43052, 43052>>, <<43204, 43205>>,
     <<43232, 43249>>, <<43263, 43263>>, <<43302, 43309>>, <<43335, 43345>>, <<43392, 43394>>,
     <<43443, 43443>>, <<43446, 43449>>, <<43452, 43453>>, <<43471, 43471>>, <<43493, 43494>>,
     <<43561, 43566>>, <<43569, 43570>>, <<43573, 43574>>, <<43587, 43587>>, <<43596, 43596>>,
     <<43632, 43632>>, <<43644, 43644>>, <<43696, 43696>>, <<43698, 43700>>, <<43703, 43704>>,
     <<43710, 43711>>, <<43713, 43713>>, <<43741, 43741>>, <<43756, 43757>>, <<43763, 43764>>,
     <<43766, 43766>>, <<43867, 43871>>, <<43881, 43883>>, <<44005, 44005>>, <<44008, 44008>>,
     <<44013, 44013>>, <<64286, 64286>>, <<64434, 64450>>, <<65024, 65039>>, <<65043, 65043>>,
     <<65056, 65071>>, <<65106, 65106>>, <<65109, 65109>>, <<65279, 65279>>, <<65287, 65287>>,
     <<65294, 65294>>, <<65306, 65306>>, <<65342, 65342>>, <<65344, 65344>>, <<65392, 65392>>,
     <<65438, 65439>>, <<65507, 65507>>, <<65529, 65531>>, <<66045, 66045>>, <<66272, 66272>>,
     <<66422, 66426>>, <<67456, 67461>>, <<67463, 67504>>, <<67506, 67514>>, <<68097, 68099>>,
     <<68101, 68102>>, <<68108, 68111>>, <<68152, 68154>>, <<68159, 68159>>, <<68325, 68326>>,
     <<68900, 68903>>, <<69291, 69292>>, <<69446, 69456>>, <<69506, 69509>>, <<69633, 69633>>,
     <<69688, 69702>>, <<69744, 69744>>, <<69747, 69748>>, <<69759, 69761>>, <<69811, 69814>>,
     <<69817, 69818>>, <<69821, 69821>>, <<69826, 69826>>, <<69837, 69837>>, <<69888, 69890>>,
     <<69927, 69931>>, <<69933, 69940>>, <<70003, 70003>>, <<70016, 70017>>, <<70070, 70078>>,
     <<70089, 70092>>, <<70095, 70095>>, <<70191, 70193>>, <<70196, 70196>>, <<70198, 70199>>,
     <<70206, 70206>>, <<70367, 70367>>, <<70371, 70378>>, <<70400, 70401>>, <<70459, 70460>>,
     <<70464, 70464>>, <<70502, 70508>>, <<70512, 70516>>, <<70712, 70719>>, <<70722, 70724>>,
     <<70726, 70726>>, <<70750, 70750>>, <<70835, 70840>>, <<70842, 70842>>, <<70847, 70848>>,
     <<70850, 70851>>, <<71090, 71093>>, <<71100, 71101>>, <<71103, 71104>>, <<71132, 71133>>,
     <<71219, 71226>>, <<71229, 71229>>, <<71231, 71232>>, <<71339, 71339>>, <<71341, 71341>>,
     <<71344, 71349>>, <<71351, 71351>>, <<71453, 71455>>, <<71458, 71461>>, <<71463, 71467>>,
     <<71727, 71735>>, <<71737, 71738>>, <<71995, 71996>>, <<71998, 71998>>, <<72003, 72003>>,
     <<72148, 72151>>, <<72154, 72155>>, <<72160, 72160>>, <<72193, 72202>>, <<72243, 72248>>,
     <<72251, 72254>>, <<72263, 72263>>, <<72273, 72278>>, <<72281, 72283>>, <<72330, 72342>>,
     <<72344, 72345>>, <<72752, 72758>>, <<72760, 72765>>, <<72767, 72767>>, <<72850, 72871>>,
     <<72874, 72880>>, <<72882, 72883>>, <<72885, 72886>>, <<73009, 73014>>, <<73018, 73018>>,
     <<73020, 73021>>, <<73023, 73029>>, <<73031, 73031>>, <<73104, 73105>>, <<73109, 73109>>,
     <<73111, 73111>>, <<73459, 73460>>, <<78896, 78904>>, <<92912, 92916>>, <<92976, 92982>>,
     <<92992, 92995>>, <<94031, 94031>>, <<94095, 94111>>, <<94176, 94177>>, <<94179, 94180>>,
     <<110576, 110579>>, <<110581, 110587>>, <<110589, 110590>>, <<113821, 113822>>, <<113824, 113827>>,
     <<118528, 118573>>, <<118576, 118598>>, <<119143, 119145>>, <<119155, 119170>>, <<119173, 119179>>,
     <<119210, 119213>>, <<119362, 119364>>, <<121344, 121398>>, <<121403, 121452>>, <<121461, 121461>>,
     <<121476, 121476>>, <<121499, 121503>>, <<121505, 121519>>, <<122880, 122886>>, <<122888, 122904>>,
     <<122907, 122913>>, <<122915, 122916>>, <<122918, 122922>>, <<123184, 123197>>, <<123566, 123566>>,
     <<123628, 123631>>, <<125136, 125142>>, <<125252, 125259>>, <<127995, 127999>>, <<917505, 917505>>,
     <<917536, 917631>>, <<917760, 917999>>}
InRanges(c, ranges) == \E r \in ranges : r[1] <= c /\ c <= r[2]

\* \d of a str pattern
IsDigit(c) ==
    IF c < 128 THEN c \in 48..57
    ELSE \E z \in DigitZeros : c \in z..(z + 9)

\* the value of a decimal digit
DigitVal(c) ==
    IF c < 128 THEN c - 48
    ELSE c - (CHOOSE z \in DigitZeros : c \in z..(z + 9))

\* [0-9]
IsAsciiDigit(c) == c \in 48..57

\* str.lower() of the one character c, apart from the capital sigma
LowerChar(c) ==
    IF c < 128 THEN (IF c \in 65..90 THEN <<c + 32>> ELSE <<c>>)
    ELSE IF c = 304 THEN <<105, 775>>
    ELSE IF \E r \in LowerRuns : c \in r[1]..r[2] /\ (c - r[1]) % r[3] = 0
         THEN LET r == CHOOSE r \in LowerRuns :
                           c \in r[1]..r[2] /\ (c - r[1]) % r[3] = 0
              IN  <<c + r[4]>>
         ELSE <<c>>

\* str.upper() of an ASCII character, used to build inputs
UpperChar(c) == IF c \in 97..122 THEN c - 32 ELSE c

---------------------------------------------------------------------------
(* str methods and the re calls the program makes *)

SetMin(S) == CHOOSE x \in S : \A y \in S : x <= y

SetMax(S) == CHOOSE x \in S : \A y \in S : y <= x

\* whether the capital sigma at s[j] is lower-cased to the final sigma: the
\* nearest character before it that is not case-ignorable is cased, and the
\* nearest one after it is not
FinalSigma(s, j) ==
    LET before == {h \in 1..(j - 1) : ~InRanges(s[h], CaseIgnorableRanges)}
        after  == {h \in (j + 1)..Len(s) : ~InRanges(s[h], CaseIgnorableRanges)}
    IN  /\ before # {}
        /\ InRanges(s[SetMax(before)], CasedRanges)
        /\ after # {} => ~InRanges(s[SetMin(after)], CasedRanges)

\* what str.lower() puts for s[j]
LowerAt(s, j) ==
    IF s[j] = 931 THEN (IF FinalSigma(s, j) THEN <<962>> ELSE <<963>>)
    ELSE LowerChar(s[j])

RECURSIVE LowerFrom(_, _)
LowerFrom(s, j) == IF j > Len(s) THEN <<>> ELSE LowerAt(s, j) \o LowerFrom(s, j + 1)

\* str.lower()
lower(s) == LowerFrom(s, 1)

\* str.upper() of an ASCII str, used to build inputs
upper(s) == [j \in 1..Len(s) |-> UpperChar(s[j])]

\* str.strip()
strip(s) ==
    LET ns == {j \in 1..Len(s) : ~IsSpace(s[j])}
    IN  IF ns = {} THEN <<>> ELSE SubSeq(s, SetMin(ns), SetMax(ns))

\* str.startswith(prefix)
startswith(s, prefix) ==
    /\ Len(prefix) <= Len(s)
    /\ \A j \in 1..Len(prefix) : s[j] = prefix[j]

\* str.replace(old, new) for a one-character old and a new of length <= 1
replace(s, old, new) ==
    LET keep == SelectSeq(s, LAMBDA c : new # <<>> \/ c # old)
    IN  [j \in 1..Len(keep) |-> IF keep[j] = old THEN new[1] ELSE keep[j]]

\* re.sub(r"[\$€¥£]", "", s)
StripCurrency(s) == SelectSeq(s, LAMBDA c : c \notin Currency)

\* re.sub(r"\s+", " ", s): every maximal run of whitespace becomes one space
CollapseWhitespace(s) ==
    LET idx  == [j \in 1..Len(s) |-> j]
        keep == SelectSeq(idx, LAMBDA j :
                    ~IsSpace(s[j]) \/ j = 1 \/ ~IsSpace(s[j - 1]))
    IN  [n \in 1..Len(keep) |-> IF IsSpace(s[keep[n]]) THEN 32 ELSE s[keep[n]]]

\* str.splitlines(): a line ends at a line boundary, "\r\n" being one
\* boundary; no empty last line
RECURSIVE splitlines(_)
splitlines(s) ==
    IF s = <<>> THEN <<>>
    ELSE LET nl == {j \in 1..Len(s) : s[j] \in LineBoundaries}
         IN  IF nl = {} THEN <<s>>
             ELSE LET p == SetMin(nl)
                      q == IF s[p] = 13 /\ p < Len(s) /\ s[p + 1] = 10
                           THEN p + 2 ELSE p + 1
                  IN  <<SubSeq(s, 1, p - 1)>> \o splitlines(SubSeq(s, q, Len(s)))

\* re.split(r"\s+", s): the pieces between maximal runs of whitespace, the
\* empty piece before a leading run and after a trailing run included
RECURSIVE SplitWhitespace(_)
SplitWhitespace(s) ==
    LET ws == {j \in 1..Len(s) : IsSpace(s[j])}
    IN  IF ws = {} THEN <<s>>
        ELSE LET p == SetMin(ws)
                 after == {j \in p..Len(s) : ~IsSpace(s[j])}
                 q == IF after = {} THEN Len(s) + 1 ELSE SetMin(after)
             IN  <<SubSeq(s, 1, p - 1)>> \o SplitWhitespace(SubSeq(s, q, Len(s)))

---------------------------------------------------------------------------
(* Natural numbers of any size: the digits in base 2^15, lowest first, the *)
(* highest not 0; 0 is <<>>                                                *)

Limb == 2^15

Max(a, b) == IF a > b THEN a ELSE b

Min(a, b) == IF a < b THEN a ELSE b

\* a without high digits 0
BTrim(a) ==
    LET nz == {j \in 1..Len(a) : a[j] # 0}
    IN  IF nz = {} THEN <<>> ELSE SubSeq(a, 1, SetMax(nz))

RECURSIVE BFromInt(_)
BFromInt(n) == IF n = 0 THEN <<>> ELSE <<n % Limb>> \o BFromInt(n \div Limb)

\* the digit j of a
BDigit(a, j) == IF j <= Len(a) THEN a[j] ELSE 0

\* a + b: a digit takes a carry when some digit below it overflows and all
\* the digits between the two add up to Limb - 1
BAdd(a, b) ==
    LET n   == Max(Len(a), Len(b)) + 1
        sum == [j \in 1..n |-> BDigit(a, j) + BDigit(b, j)]
        carry(j) == \E h \in 1..(j - 1) :
                        /\ sum[h] >= Limb
                        /\ \A g \in (h + 1)..(j - 1) : sum[g] = Limb - 1
    IN  BTrim([j \in 1..n |-> (sum[j] + (IF carry(j) THEN 1 ELSE 0)) % Limb])

\* a - b, where a >= b: a digit gives a borrow when some digit below it is
\* less than that of b and all the digits between the two are equal
BSub(a, b) ==
    LET borrow(j) == \E h \in 1..(j - 1) :
                         /\ a[h] < BDigit(b, h)
                         /\ \A g \in (h + 1)..(j - 1) : a[g] = BDigit(b, g)
    IN  BTrim([j \in 1..Len(a) |->
                  (Limb + a[j] - BDigit(b, j) - (IF borrow(j) THEN 1 ELSE 0)) % Limb])

\* a < b
BLess(a, b) ==
    \/ Len(a) < Len(b)
    \/ /\ Len(a) = Len(b)
       /\ \E j \in 1..Len(a) :
             a[j] < b[j] /\ \A h \in (j + 1)..Len(a) : a[h] = b[h]

\* a * n for 0 <= n <= 2^15: the low halves of the products of the digits,
\* plus the high halves one place up
BMulSmall(a, n) ==
    BAdd([j \in 1..Len(a) |-> (a[j] * n) % Limb],
         <<0>> \o [j \in 1..Len(a) |-> (a[j] * n) \div Limb])

\* a * Limb^n
BShiftDigits(a, n) == IF a = <<>> THEN <<>> ELSE [j \in 1..n |-> 0] \o a

RECURSIVE BMulRange(_, _, _, _)
\* a * (the digits lo..hi of b, in their places)
BMulRange(a, b, lo, hi) ==
    IF lo = hi THEN BShiftDigits(BMulSmall(a, b[lo]), lo - 1)
    ELSE BAdd(BMulRange(a, b, lo, (lo + hi) \div 2),
              BMulRange(a, b, (lo + hi) \div 2 + 1, hi))

\* a * b
BMul(a, b) == IF a = <<>> \/ b = <<>> THEN <<>> ELSE BMulRange(a, b, 1, Len(b))

\* a * 2^n
BShl(a, n) == BShiftDigits(BMulSmall(a, 2^(n % 15)), n \div 15)

\* a \div 2^n
BShr(a, n) ==
    LET w == n \div 15
        b == 2^(n % 15)
        x == SubSeq(a, w + 1, Len(a))
    IN  BTrim([j \in 1..Len(x) |->
                  (x[j] \div b) + (IF j < Len(x) THEN (x[j + 1] % b) * (Limb \div b) ELSE 0)])

\* the number of binary digits of a
BBitLen(a) ==
    IF a = <<>> THEN 0
    ELSE 15 * (Len(a) - 1) + CHOOSE n \in 1..15 : 2^(n - 1) <= a[Len(a)] /\ a[Len(a)] < 2^n

\* the binary digit n of a, the lowest being digit 0
BBit(a, n) ==
    IF n \div 15 >= Len(a) THEN 0 ELSE (a[(n \div 15) + 1] \div 2^(n % 15)) % 2

BOdd(a) == a # <<>> /\ a[1] % 2 = 1

\* the number of binary digits 0 at the low end of a, where a > 0
BTrailingZeros(a) ==
    LET j == SetMin({h \in 1..Len(a) : a[h] # 0})
    IN  15 * (j - 1) + SetMax({n \in 0..14 : a[j] % 2^n = 0})

RECURSIVE BPow(_, _)
\* n^x for 0 <= n <= 2^15, by squaring
BPow(n, x) ==
    IF x = 0 THEN <<1>>
    ELSE LET h == BPow(n, x \div 2)
         IN  IF x % 2 = 1 THEN BMulSmall(BMul(h, h), n) ELSE BMul(h, h)

RECURSIVE BFromDigits(_, _, _)
\* the number the decimal digit values lo..hi of ds denote
BFromDigits(ds, lo, hi) ==
    IF lo > hi THEN <<>>
    ELSE IF lo = hi THEN BFromInt(ds[lo])
    ELSE LET mid == (lo + hi) \div 2
         IN  BAdd(BMul(BFromDigits(ds, lo, mid), BPow(10, hi - mid)),
                  BFromDigits(ds, mid + 1, hi))

\* c * d * Limb^j is at most r
BDivFits(r, d, j, c) == ~BLess(r, BShiftDigits(BMulSmall(d, c), j))

\* the digit j of the quotient of r by d: the greatest c that fits, which is
\* at most est and at least est - 2
BDivDigit(r, d, j, est) ==
    CHOOSE c \in Max(0, est - 2)..est :
        BDivFits(r, d, j, c) /\ (c = est \/ ~BDivFits(r, d, j, c + 1))

\* the digit c put before the quotient p.q and taken from what is left, p.r
BDivPut(p, d, j, c) ==
    [q |-> <<c>> \o p.q, r |-> BSub(p.r, BShiftDigits(BMulSmall(d, c), j))]

\* one more digit of the quotient, its estimate being the two highest digits
\* of what is left over the highest digit of d
BDivTake(p, d, j) ==
    BDivPut(p, d, j,
            BDivDigit(p.r, d, j,
                      Min((BDigit(p.r, Len(d) + j + 1) * Limb + BDigit(p.r, Len(d) + j))
                              \div d[Len(d)],
                          Limb - 1)))

RECURSIVE BDivStep(_, _, _, _)
\* long division of n by d, whose highest digit is at least Limb / 2: the
\* digits j..top of the quotient, q, and what is left of n, r.  A digit of
\* the quotient is at most est, the two highest digits of r over the highest
\* of d, and at least est - 2
BDivStep(n, d, j, top) ==
    IF j > top THEN [q |-> <<>>, r |-> n]
    ELSE BDivTake(BDivStep(n, d, j + 1, top), d, j)

BDivTrim(qr) == [q |-> BTrim(qr.q), r |-> qr.r]

\* the quotient q and the remainder r of n by d, whose highest digit is at
\* least Limb / 2
BDivMod(n, d) == BDivTrim(BDivStep(n, d, 0, Len(n) - Len(d)))

---------------------------------------------------------------------------
(* float and Optional[float] *)

None == [none |-> TRUE]

Unbound == [unbound |-> TRUE]

NaN == [nan |-> TRUE]

Inf(s) == [inf |-> s]

IsFinite(x) == "m" \in DOMAIN x

IsNaN(x) == "nan" \in DOMAIN x

IsInf(x) == "inf" \in DOMAIN x

\* the double (-1)^s * m * 2^e, which the caller knows to be one
MakeFloat(s, m, e) ==
    IF m = <<>> THEN [s |-> s, m |-> <<>>, e |-> 0]
    ELSE [s |-> s, m |-> BShr(m, BTrailingZeros(m)), e |-> e + BTrailingZeros(m)]

\* float(n) of an int n the model writes
FromInt(n) == MakeFloat(IF n < 0 THEN 1 ELSE 0, BFromInt(IF n < 0 THEN -n ELSE n), 0)

Zero == FromInt(0)

IsZero(x) == IsFinite(x) /\ x.m = <<>>

\* m * 2^e as a double: an infinity from 2^1024 on
Overflowing(s, m, e) ==
    IF BBitLen(m) + e > 1024 THEN Inf(s) ELSE MakeFloat(s, m, e)

\* the exponent of the last binary digit a double keeps of a number that
\* lies in [2^E, 2^(E+1)): 53 digits, and none below 2^-1074
LastPlace(E) == Max(E - 52, -1074)

\* (-1)^s * q * 2^e, or the double above it in magnitude
RoundedUpIf(up, s, q, e) == Overflowing(s, IF up THEN BAdd(q, <<1>>) ELSE q, e)

\* n is more than half way from q * 2^sh to (q + 1) * 2^sh, or half way with
\* q odd
AboveHalf(n, sh, q) ==
    /\ BBit(n, sh - 1) = 1
    /\ BTrailingZeros(n) < sh - 1 \/ BOdd(q)

\* the double nearest to (-1)^s * n * 2^x, which keeps none of the last sh
\* binary digits of n
RoundDropping(s, n, x, sh) ==
    IF sh <= 0 THEN Overflowing(s, n, x)
    ELSE RoundedUpIf(AboveHalf(n, sh, BShr(n, sh)), s, BShr(n, sh), x + sh)

\* the double nearest to (-1)^s * n * 2^x, ties to even
RoundDyadic(s, n, x) ==
    IF n = <<>> THEN MakeFloat(s, <<>>, 0)
    ELSE RoundDropping(s, n, x, LastPlace(BBitLen(n) - 1 + x) - x)

\* the E with n / d in [2^E, 2^(E+1))
QuotientExponent(n, d) ==
    LET t == BBitLen(n) - BBitLen(d)
    IN  IF t >= 0 THEN (IF BLess(n, BShl(d, t)) THEN t - 1 ELSE t)
        ELSE (IF BLess(BShl(n, -t), d) THEN t - 1 ELSE t)

\* twice the remainder is more than the divisor, or is the divisor with the
\* quotient odd
AboveHalfOf(dd, r2, q) == BLess(dd, r2) \/ (r2 = dd /\ BOdd(q))

\* the double nearest to (-1)^s * (qr.q + qr.r / dd) * 2^e
RoundDivided(s, qr, dd, e) ==
    RoundedUpIf(AboveHalfOf(dd, BMulSmall(qr.r, 2), qr.q), s, qr.q, e)

\* the double nearest to (-1)^s * (nn / dd) * 2^e, nn / dd having 53 binary
\* digits or fewer before the point
RoundQuotient(s, nn, dd, e) == RoundDivided(s, BDivMod(nn, dd), dd, e)

\* the double nearest to (-1)^s * (n / d) * 2^x whose last binary digit is
\* that of 2^(x + sh); n and d are scaled by up more binary digits so that
\* the highest digit of the divisor is large
RoundScaled(s, n, d, x, sh) ==
    LET up == (15 - ((BBitLen(d) + Max(sh, 0)) % 15)) % 15
    IN  RoundQuotient(s, BShl(n, up + (IF sh < 0 THEN -sh ELSE 0)),
                      BShl(d, up + (IF sh > 0 THEN sh ELSE 0)), x + sh)

\* the double nearest to (-1)^s * (n / d) * 2^x, ties to even, for n, d > 0
RoundRational(s, n, d, x) ==
    IF d = <<1>> THEN RoundDyadic(s, n, x)
    ELSE RoundScaled(s, n, d, x, LastPlace(QuotientExponent(n, d) + x) - x)

\* abs(a) < abs(b)
AbsLess(a, b) ==
    IF IsNaN(a) \/ IsNaN(b) \/ IsInf(a) THEN FALSE
    ELSE IF IsInf(b) THEN TRUE
    ELSE IF b.m = <<>> THEN FALSE
    ELSE IF a.m = <<>> THEN TRUE
    ELSE IF BBitLen(a.m) + a.e # BBitLen(b.m) + b.e
         THEN BBitLen(a.m) + a.e < BBitLen(b.m) + b.e
    ELSE BLess(BShl(a.m, a.e - Min(a.e, b.e)), BShl(b.m, b.e - Min(a.e, b.e)))

\* (-1)^sa * ma * 2^e + (-1)^sb * mb * 2^e
AddAligned(sa, ma, sb, mb, e) ==
    IF sa = sb THEN RoundDyadic(sa, BAdd(ma, mb), e)
    ELSE IF ma = mb THEN Zero
    ELSE IF BLess(ma, mb) THEN RoundDyadic(sb, BSub(mb, ma), e)
    ELSE RoundDyadic(sa, BSub(ma, mb), e)

\* a + b
FAdd(a, b) ==
    IF IsNaN(a) \/ IsNaN(b) THEN NaN
    ELSE IF IsInf(a) THEN (IF IsInf(b) /\ b.inf # a.inf THEN NaN ELSE a)
    ELSE IF IsInf(b) THEN b
    ELSE AddAligned(a.s, BShl(a.m, a.e - Min(a.e, b.e)),
                    b.s, BShl(b.m, b.e - Min(a.e, b.e)), Min(a.e, b.e))

\* what a division by 0.0 raises
ZeroDivisionError == [raised |-> "ZeroDivisionError"]

Sign(x) == IF IsInf(x) THEN x.inf ELSE x.s

\* a / b
FDiv(a, b) ==
    IF IsZero(b) THEN ZeroDivisionError
    ELSE IF IsNaN(a) \/ IsNaN(b) THEN NaN
    ELSE IF IsInf(a) THEN (IF IsInf(b) THEN NaN ELSE Inf((a.inf + b.s) % 2))
    ELSE IF IsInf(b) \/ IsZero(a) THEN MakeFloat((a.s + Sign(b)) % 2, <<>>, 0)
    ELSE RoundRational((a.s + b.s) % 2, a.m, b.m, a.e - b.e)

\* a * b
FMul(a, b) ==
    IF IsNaN(a) \/ IsNaN(b) THEN NaN
    ELSE IF IsInf(a) \/ IsInf(b)
         THEN (IF IsZero(a) \/ IsZero(b) THEN NaN ELSE Inf((Sign(a) + Sign(b)) % 2))
    ELSE RoundDyadic((a.s + b.s) % 2, BMul(a.m, b.m), a.e + b.e)

\* Python truthiness of an Optional[float]: None and 0.0 are false
Truthy(x) == x # None /\ ~IsZero(x)

\* the places of the characters of s that are in the set cs
Places(s, cs) == {j \in 1..Len(s) : s[j] \in cs}

\* a run of ASCII digits as the sequence of their values
DigitValues(ds) == [j \in 1..Len(ds) |-> ds[j] - 48]

\* the int the first n of a run of ASCII digits denote, and 10^7 when it is
\* at least that (an exponent of that size decides the double whatever
\* digits precede)
RECURSIVE DigitsValue(_, _)
DigitsValue(ds, n) ==
    IF n = 0 THEN 0
    ELSE LET p == DigitsValue(ds, n - 1)
         IN  IF p >= 1000000 THEN 10000000 ELSE 10 * p + ds[n] - 48

\* the double nearest to (-1)^s * n * 10^x, n having nd decimal digits
FromDecimal(s, n, nd, x) ==
    IF n = <<>> THEN MakeFloat(s, <<>>, 0)
    ELSE IF nd + x > 309 THEN Inf(s)
    ELSE IF nd + x < -324 THEN MakeFloat(s, <<>>, 0)
    ELSE IF x >= 0 THEN RoundDyadic(s, BMul(n, BPow(5, x)), x)
    ELSE RoundRational(s, n, BPow(5, -x), x)

\* decimal digits as ASCII ones, other whitespace as a space
AsciiForm(s) ==
    [j \in 1..Len(s) |->
        IF IsDigit(s[j]) THEN 48 + DigitVal(s[j])
        ELSE IF s[j] > 127 /\ IsSpace(s[j]) THEN 32 ELSE s[j]]

\* a without the ASCII whitespace at its ends
StripAscii(a) ==
    LET ns == {j \in 1..Len(a) : a[j] \notin (9..13) \cup {32}}
    IN  IF ns = {} THEN <<>> ELSE SubSeq(a, SetMin(ns), SetMax(ns))

\* every underscore stands between two digits
UnderscoresOk(t) ==
    \A j \in Places(t, {95}) :
        /\ 1 < j /\ j < Len(t)
        /\ IsAsciiDigit(t[j - 1]) /\ IsAsciiDigit(t[j + 1])

LowerAscii(w) == [j \in 1..Len(w) |-> IF w[j] \in 65..90 THEN w[j] + 32 ELSE w[j]]

HasSign(u) == Len(u) > 0 /\ u[1] \in {45, 43}

Unsigned(u) == IF HasSign(u) THEN Tail(u) ELSE u

\* the number of digits of digs from its first digit that is not 0
Significant(digs) ==
    LET lead == {j \in 1..Len(digs) : digs[j] # 48}
    IN  IF lead = {} THEN 0 ELSE Len(digs) - SetMin(lead) + 1

\* the number of digits of mant after its point
FractionDigits(mant) ==
    IF Places(mant, {46}) = {} THEN 0 ELSE Len(mant) - SetMin(Places(mant, {46}))

\* digits with at most one point among them, and at least one digit
IsMantissa(mant) ==
    /\ \A j \in 1..Len(mant) : IsAsciiDigit(mant[j]) \/ mant[j] = 46
    /\ Cardinality(Places(mant, {46})) <= 1
    /\ \E j \in 1..Len(mant) : IsAsciiDigit(mant[j])

\* an optional sign and at least one digit
IsExponent(ex) ==
    /\ Len(Unsigned(ex)) >= 1
    /\ \A j \in 1..Len(Unsigned(ex)) : IsAsciiDigit(Unsigned(ex)[j])

\* the int the exponent part denotes, 0 when there is none
ExponentValue(ex) ==
    IF HasSign(ex) /\ ex[1] = 45 THEN -DigitsValue(Tail(ex), Len(ex) - 1)
    ELSE DigitsValue(Unsigned(ex), Len(Unsigned(ex)))

\* the float of a mantissa and an exponent part
FloatOfParts(neg, mant, hasex, ex) ==
    IF ~IsMantissa(mant) \/ (hasex /\ ~IsExponent(ex)) THEN None
    ELSE FromDecimal(neg,
                     BFromDigits(DigitValues(SelectSeq(mant, IsAsciiDigit)), 1,
                                 Len(SelectSeq(mant, IsAsciiDigit))),
                     Significant(SelectSeq(mant, IsAsciiDigit)),
                     ExponentValue(ex) - FractionDigits(mant))

\* the float of an unsigned literal: inf, infinity and nan in any letter
\* case, or a decimal number with an optional exponent after e or E
FloatOfBody(neg, body) ==
    IF LowerAscii(body) \in {Str("inf"), Str("infinity")} THEN Inf(neg)
    ELSE IF LowerAscii(body) = Str("nan") THEN NaN
    ELSE IF Places(body, {101, 69}) = {} THEN FloatOfParts(neg, body, FALSE, <<>>)
    ELSE FloatOfParts(neg, SubSeq(body, 1, SetMin(Places(body, {101, 69})) - 1), TRUE,
                      SubSeq(body, SetMin(Places(body, {101, 69})) + 1, Len(body)))

FloatOfSigned(u) == FloatOfBody(IF HasSign(u) /\ u[1] = 45 THEN 1 ELSE 0, Unsigned(u))

\* the float of a str without whitespace at its ends
FloatOfStripped(t) ==
    IF ~UnderscoresOk(t) THEN None
    ELSE FloatOfSigned(SelectSeq(t, LAMBDA c : c # 95))

\* float(s) of a str: None where float raises ValueError
float(s) == FloatOfStripped(StripAscii(AsciiForm(s)))

---------------------------------------------------------------------------
(* parse_amount *)

RECURSIVE DotGroups(_, _)
\* (?:\.\d{3})+ from position p: the position after the last group that is
\* followed by a comma, or 0
DotGroups(t, p) ==
    IF /\ p + 3 <= Len(t)
       /\ t[p] = 46
       /\ \A j \in (p + 1)..(p + 3) : IsDigit(t[j])
    THEN IF p + 4 <= Len(t) /\ t[p + 4] = 44 THEN p + 4
         ELSE DotGroups(t, p + 4)
    ELSE 0

\* re.match(r"^-?\d{1,3}(?:\.\d{3})+,\d+$", t), for a t that does not end in
\* a line feed
EuropeanFormat(t) ==
    LET p0    == IF Len(t) > 0 /\ t[1] = 45 THEN 2 ELSE 1
        nondg == {j \in p0..Len(t) : ~IsDigit(t[j])}
        p1    == IF nondg = {} THEN Len(t) + 1 ELSE SetMin(nondg)
        comma == DotGroups(t, p1)
    IN  /\ p1 - p0 \in 1..3
        /\ comma # 0
        /\ comma < Len(t)
        /\ \A j \in (comma + 1)..Len(t) : IsDigit(t[j])

parse_amount(s) ==
    LET t     == strip(s)
        clean == IF EuropeanFormat(t)
                 THEN replace(replace(t, 46, <<>>), 44, <<46>>)
                 ELSE replace(t, 44, <<>>)
    IN  float(StripCurrency(clean))

---------------------------------------------------------------------------
(* The tables of extract_metrics_from_text *)

\* the keys of metrics and of label_map, in dict order
MetricKeys == <<"income", "cogs", "expenses", "other_expenses", "net_income">>

\* the keys of regex_patterns, in dict order
RegexKeys == <<"income", "net_income">>

\* the label alternatives of each pattern; what follows them is TailMatch
regex_patterns ==
    [income |-> <<Str("Total for Income"), Str("Total de ingresos")>>,
     net_income |-> <<Str("Net Income"), Str("Utilidad neta"), Str("Ingreso neto")>>]

label_map ==
    [income |-> <<Str("total for income"), Str("total de ingresos")>>,
     cogs |-> <<Str("total for cost of goods sold"), Str("costo de ventas"),
                Str("total del costo de ventas")>>,
     expenses |-> <<Str("total for expenses"), Str("total de gastos")>>,
     other_expenses |-> <<Str("total for other expenses"), Str("otros gastos")>>,
     net_income |-> <<Str("net income"), Str("utilidad neta"), Str("ingreso neto")>>]

\* the number of lines scan_for_number looks at
Window == 10

---------------------------------------------------------------------------
(* The direct-adjacency patterns *)

NoMatch == [found |-> FALSE]

\* \s* from p: the position after the run of whitespace
SpaceRunEnd(s, p) ==
    LET stop == {j \in p..Len(s) : ~IsSpace(s[j])}
    IN  IF stop = {} THEN Len(s) + 1 ELSE SetMin(stop)

\* [0-9.,]
IsLiteralChar(c) == IsAsciiDigit(c) \/ c \in {46, 44}

\* [0-9.,]* from p: the position after the run
LiteralRunEnd(s, p) ==
    LET stop == {j \in p..Len(s) : ~IsLiteralChar(s[j])}
    IN  IF stop = {} THEN Len(s) + 1 ELSE SetMin(stop)

\* the characters the pattern character p matches under re.IGNORECASE: a
\* letter in both cases, and with them the characters whose case mapping
\* gives i, k or s
CaseClass(p) ==
    LET low == IF p \in 65..90 THEN p + 32 ELSE p
    IN  IF low \notin 97..122 THEN {p}
        ELSE {low, low - 32}
             \cup (IF low = 105 THEN {304, 305} ELSE {})
             \cup (IF low = 107 THEN {8490} ELSE {})
             \cup (IF low = 115 THEN {383} ELSE {})

\* label at p, ignoring case
LabelAt(s, p, label) ==
    /\ p + Len(label) - 1 <= Len(s)
    /\ \A j \in 1..Len(label) : s[p + j - 1] \in CaseClass(label[j])

\* \s*\$?([-]?[0-9][0-9.,]*) from position q: the match, or NoMatch
TailMatch(s, q) ==
    LET q1 == SpaceRunEnd(s, q)
        q2 == IF q1 <= Len(s) /\ s[q1] = 36 THEN q1 + 1 ELSE q1
        q3 == IF q2 <= Len(s) /\ s[q2] = 45 THEN q2 + 1 ELSE q2
    IN  IF q3 <= Len(s) /\ IsAsciiDigit(s[q3])
        THEN [found |-> TRUE,
              group1 |-> SubSeq(s, q2, LiteralRunEnd(s, q3) - 1)]
        ELSE NoMatch

\* the pattern tried at position p: its alternatives in order
MatchAt(labels, s, p) ==
    LET ok == {n \in 1..Len(labels) :
                 LabelAt(s, p, labels[n])
                 /\ TailMatch(s, p + Len(labels[n])).found}
    IN  IF ok = {} THEN NoMatch
        ELSE TailMatch(s, p + Len(labels[SetMin(ok)]))

\* re.search(pattern, s, re.IGNORECASE): the leftmost match
re_search(labels, s) ==
    LET hits == {p \in 1..Len(s) : MatchAt(labels, s, p).found}
    IN  IF hits = {} THEN NoMatch ELSE MatchAt(labels, s, SetMin(hits))

---------------------------------------------------------------------------
(* scan_for_number *)

\* re.search(r"\d", tok)
HasDigit(tok) == \E j \in 1..Len(tok) : IsDigit(tok[j])

\* lines 156-160: the numbers the tokens add to the list
TokenNumbers(tokens) ==
    SelectSeq([t \in 1..Len(tokens) |->
                  IF HasDigit(tokens[t]) THEN parse_amount(tokens[t]) ELSE None],
              LAMBDA x : x # None)

\* the numbers one line adds to the list
LineNumbers(line) ==
    IF strip(line) = <<>> THEN <<>>
    ELSE TokenNumbers(SplitWhitespace(StripCurrency(strip(line))))

\* a window of one line more
WindowEndWide(ls, start) ==
    IF Len(ls) < start + Window + 1 THEN Len(ls) ELSE start + Window + 1

\* min(len(lines), start_index + 10)
WindowEnd(ls, start) ==
    IF Len(ls) < start + Window THEN Len(ls) ELSE start + Window

RECURSIVE CollectNumbers(_, _, _)
\* the list numbers after the turns j .. stop-1 of the loop (j, stop: Python
\* indices, line j being ls[j + 1])
CollectNumbers(ls, j, stop) ==
    IF j >= stop THEN <<>>
    ELSE LineNumbers(ls[j + 1]) \o CollectNumbers(ls, j + 1, stop)

\* a max that keeps the last of the greatest
ReplacesOnTie(best, next) == ~AbsLess(next, best)

\* whether max(..., key=abs) replaces its running best by the next element
Replaces(best, next) == AbsLess(best, next)

RECURSIVE MaxByAbs(_, _)
\* max(numbers, key=abs) continued from a running best: the first of the
\* greatest
MaxByAbs(nums, best) ==
    IF nums = <<>> THEN best
    ELSE MaxByAbs(Tail(nums), IF Replaces(best, Head(nums)) THEN Head(nums) ELSE best)

\* lines 161-164
MaxOrNone(numbers) ==
    IF numbers = <<>> THEN None
    ELSE MaxByAbs(Tail(numbers), Head(numbers))

scan_for_number(ls, start) == MaxOrNone(CollectNumbers(ls, start, WindowEnd(ls, start)))

---------------------------------------------------------------------------
(* The line scan *)

\* a match of the phrase anywhere in the line
LineContains(line, key) ==
    LET lower_line == lower(strip(line))
    IN  \E n \in 1..Len(label_map[key]) : \E p \in 1..Len(lower_line) :
            startswith(SubSeq(lower_line, p, Len(lower_line)), label_map[key][n])

\* any(lower_line.startswith(kw) for kw in label_map[key])
LineMatches(line, key) ==
    LET lower_line == lower(strip(line))
    IN  \E n \in 1..Len(label_map[key]) : startswith(lower_line, label_map[key][n])

\* a scan that never skips a key
NeverResolved(m, key) == FALSE

\* "if metrics[key] is not None: continue"
AlreadyResolved(m, key) == m[key] # None

\* a window that starts at the label line itself
LocateFromLabel(n) == n

\* the index scan_for_number is called with for a label on line i
LocateFrom(n) == n + 1

---------------------------------------------------------------------------
(* Derived metrics and the result *)

\* q * 100, where the division raised nothing
Times100(q) == IF q = ZeroDivisionError THEN ZeroDivisionError ELSE FMul(q, FromInt(100))

\* (a / b) * 100
Percent(a, b) == Times100(FDiv(a, b))

\* x or 0.0
OrZero(x) == IF Truthy(x) THEN x ELSE Zero

\* a total that leaves other_expenses out
total_without_other(m) == FAdd(OrZero(m["cogs"]), OrZero(m["expenses"]))

\* cogs + expenses + other_expenses
total_expenses_of(m) ==
    FAdd(FAdd(OrZero(m["cogs"]), OrZero(m["expenses"])), OrZero(m["other_expenses"]))

\* lines 186-188
margin_of(m) ==
    IF Truthy(m["income"]) /\ ~IsZero(m["income"]) /\ m["net_income"] # None
    THEN Percent(m["net_income"], m["income"])
    ELSE None

\* keys that include every resolved component, a zero one too
result_keys_resolved(m, total, mar) ==
    {key \in {"income", "net_income", "cogs", "expenses", "other_expenses"} : m[key] # None}
    \cup {key \in {"total_expenses"} : Truthy(total)}
    \cup {key \in {"margin"} : mar # None}

\* keys that include income whether resolved or not
result_keys_income(m, total, mar) ==
    {"income"}
    \cup {key \in {"net_income"} : m[key] # None}
    \cup {key \in {"cogs", "expenses", "other_expenses"} : Truthy(OrZero(m[key]))}
    \cup {key \in {"total_expenses"} : Truthy(total)}
    \cup {key \in {"margin"} : mar # None}

\* the keys the result is given, total and mar being the locals
\* total_expenses and margin
result_keys(m, total, mar) ==
    {key \in {"income", "net_income"} : m[key] # None}
    \cup {key \in {"cogs", "expenses", "other_expenses"} : Truthy(OrZero(m[key]))}
    \cup {key \in {"total_expenses"} : Truthy(total)}
    \cup {key \in {"margin"} : mar # None}

\* lines 190-206
build_result(m, total, mar) ==
    [key \in result_keys(m, total, mar) |->
        CASE key = "total_expenses" -> total
          [] key = "margin" -> mar
          [] key \in {"cogs", "expenses", "other_expenses"} -> OrZero(m[key])
          [] OTHER -> m[key]]

---------------------------------------------------------------------------
(* extract_metrics_from_text as a state machine.  pc is the place in the   *)
(* function; i is the index of the line scan (Python's, from 0) and k the  *)
(* turn of the loop over the keys (from 1).                                *)

NoMetrics == [key \in {MetricKeys[n] : n \in 1..Len(MetricKeys)} |-> None]

\* the state at the call of a function with the str t: no local is assigned
Idle(p, t) ==
    /\ pc = p
    /\ text = t
    /\ flat_text = Unbound
    /\ metrics = NoMetrics
    /\ lines = Unbound
    /\ i = Unbound
    /\ k = 1
    /\ amount = Unbound
    /\ value = Unbound
    /\ start_index = Unbound
    /\ total_expenses = Unbound
    /\ margin = Unbound
    /\ result = Unbound

\* the call extract_metrics_from_text(t)
ExtractCall(t) == Idle("extract", t)

\* line 100
Flatten ==
    /\ pc = "extract"
    /\ flat_text' = CollapseWhitespace(text)
    /\ k' = 1
    /\ pc' = "regex"
    /\ UNCHANGED <<text, metrics, lines, i, amount, value, start_index, total_expenses, margin, result>>

\* lines 119-125: one turn of the loop over regex_patterns
ApplyRegex ==
    /\ pc = "regex"
    /\ LET match == re_search(regex_patterns[RegexKeys[k]], flat_text)
       IN  IF match.found
           THEN /\ amount' = parse_amount(match.group1)
                /\ metrics' = IF amount' # None
                              THEN [metrics EXCEPT ![RegexKeys[k]] = amount']
                              ELSE metrics
           ELSE UNCHANGED <<amount, metrics>>
    /\ IF k < Len(RegexKeys)
       THEN k' = k + 1 /\ pc' = "regex"
       ELSE k' = 1 /\ pc' = "fallback"
    /\ UNCHANGED <<text, flat_text, lines, i, value, start_index, total_expenses, margin, result>>

\* lines 128-129 and the entry of the loop of line 166
BeginScan ==
    /\ pc = "fallback"
    /\ IF \E key \in DOMAIN metrics : metrics[key] = None
       THEN /\ lines' = splitlines(text)
            /\ IF lines' = <<>> THEN i' = i /\ pc' = "derive"
               ELSE i' = 0 /\ pc' = "scan"
       ELSE UNCHANGED <<lines, i>> /\ pc' = "derive"
    /\ k' = 1
    /\ UNCHANGED <<text, flat_text, metrics, amount, value, start_index, total_expenses, margin, result>>

\* the next turn of the loops of lines 166 and 168
Advance ==
    IF k < Len(MetricKeys) THEN i' = i /\ k' = k + 1 /\ pc' = "scan"
    ELSE IF i + 1 < Len(lines) THEN i' = i + 1 /\ k' = 1 /\ pc' = "scan"
    ELSE i' = i /\ k' = k /\ pc' = "derive"

\* lines 167-172: line i against the keywords of key k
ScanLine ==
    /\ pc = "scan"
    /\ IF ~AlreadyResolved(metrics, MetricKeys[k]) /\ LineMatches(lines[i + 1], MetricKeys[k])
       THEN i' = i /\ k' = k /\ pc' = "locate"
       ELSE Advance
    /\ UNCHANGED <<text, flat_text, metrics, lines, amount, value, start_index, total_expenses, margin, result>>

\* lines 173-176: the label matched
Locate ==
    /\ pc = "locate"
    /\ start_index' = LocateFrom(i)
    /\ value' = scan_for_number(lines, start_index')
    /\ metrics' = IF value' # None THEN [metrics EXCEPT ![MetricKeys[k]] = value']
                  ELSE metrics
    /\ Advance
    /\ UNCHANGED <<text, flat_text, lines, amount, total_expenses, margin, result>>

\* lines 178-206
Derive ==
    /\ pc = "derive"
    /\ total_expenses' = total_expenses_of(metrics)
    /\ margin' = margin_of(metrics)
    /\ IF margin' = ZeroDivisionError
       THEN result' = result /\ pc' = "raised"
       ELSE result' = build_result(metrics, total_expenses', margin') /\ pc' = "done"
    /\ UNCHANGED <<text, flat_text, metrics, lines, i, k, amount, value, start_index>>

ExtractNext == Flatten \/ ApplyRegex \/ BeginScan \/ ScanLine \/ Locate \/ Derive

---------------------------------------------------------------------------
(* parse_amount and scan_for_number called on their own *)

ParseCall(t) == Idle("parse_amount", t)

ParseAmount ==
    /\ pc = "parse_amount"
    /\ amount' = parse_amount(text)
    /\ pc' = "parsed"
    /\ UNCHANGED <<text, flat_text, metrics, lines, i, k, value, start_index, total_expenses, margin, result>>

ScanCall(ls, start) ==
    /\ pc = "scan_for_number"
    /\ text = Unbound
    /\ flat_text = Unbound
    /\ metrics = NoMetrics
    /\ lines = ls
    /\ i = Unbound
    /\ k = 1
    /\ amount = Unbound
    /\ value = Unbound
    /\ start_index = start
    /\ total_expenses = Unbound
    /\ margin = Unbound
    /\ result = Unbound

ScanForNumber ==
    /\ pc = "scan_for_number"
    /\ value' = scan_for_number(lines, start_index)
    /\ pc' = "located"
    /\ UNCHANGED <<text, flat_text, metrics, lines, i, k, amount, start_index, total_expenses, margin, result>>

---------------------------------------------------------------------------
(* The inputs the calls are made with *)

\* the largest number of lines put between a label line and its value line
MaxGap == 11

\* the largest number of blank lines put before the lines given to
\* scan_for_number, and the largest number of lines that follow them
MaxPad == 11
MaxBody == 2

SP == Str(" ")

NL == <<10>>

RECURSIVE JoinLines(_)
\* "\n".join(ls)
JoinLines(ls) ==
    IF ls = <<>> THEN <<>>
    ELSE IF Len(ls) = 1 THEN ls[1]
    ELSE ls[1] \o NL \o JoinLines(Tail(ls))

Capitalized(s) == [j \in 1..Len(s) |-> IF j = 1 THEN UpperChar(s[j]) ELSE s[j]]

\* a phrase in three letter cases
Cases(s) == {s, upper(s), Capitalized(s)}

Phrases(key) == {label_map[key][n] : n \in 1..Len(label_map[key])}

KeySet == {MetricKeys[n] : n \in 1..Len(MetricKeys)}

AllPhrases == UNION {Phrases(key) : key \in KeySet}

\* no glyph, $, euro, yen, pound
Glyphs == {<<>>, <<36>>, <<8364>>, <<165>>, <<163>>}

Literals == {Str("500"), Str("-500"), Str("1.234,56"), Str("150,000.00")}

\* '<phrase> <glyph><literal>' on one line
AdjacentTexts ==
    {c \o SP \o g \o lit :
        c \in UNION {Cases(ph) : ph \in AllPhrases}, g \in Glyphs, lit \in Literals}

Before == {<<>>, Str("  "), Str("- "), Str(":"), Str("see "), <<160>>, <<31, 9>>}

After == {<<>>, Str(":"), Str(" -")}

\* a label line with text around the phrase, and the value on the next line
LabelLineTexts ==
    {b \o c \o a \o NL \o Str("500") :
        c \in UNION {Cases(ph) : ph \in AllPhrases}, b \in Before, a \in After}

\* the lines between a label line and its value line: blank, text, blank
\* with a note on the last one, or blank with the label again on the last one
GapLines(kind, phrase, n) ==
    [j \in 1..n |->
        CASE kind = "blank" -> <<>>
          [] kind = "text" -> Str("x")
          [] kind = "note" -> IF j = n THEN Str("x") ELSE <<>>
          [] kind = "relabel" -> IF j = n THEN phrase ELSE <<>>]

\* a label line, a gap that ends inside or outside the window, the value
WindowTexts ==
    {JoinLines(<<Capitalized(label_map[key][n])>>
               \o GapLines(kind, label_map[key][n], gap)
               \o <<val>>) :
        key \in KeySet, n \in 1..2, gap \in (Window - 1)..MaxGap,
        kind \in {"blank", "text", "note", "relabel"},
        val \in {Str("500"), Str("$-7")}}

\* a label with its value on the same line / on the next line
SameLine(phrase, num) == <<Capitalized(phrase) \o SP \o Str(num)>>

NextLine(phrase, num) == <<Capitalized(phrase), Str(num)>>

IncomeBlocks ==
    {<<>>} \cup {SameLine(Str("total for income"), num) : num \in {"0", "1000", "3"}}

NetIncomeBlocks ==
    {<<>>} \cup {SameLine(Str("utilidad neta"), num) : num \in {"0", "100"}}
           \cup {NextLine(Str("net income"), "-100")}

CogsBlocks ==
    {<<>>} \cup {NextLine(Str("costo de ventas"), num) : num \in {"0", "100"}}
           \cup {NextLine(Str("costo de ventas"), "100")
                 \o NextLine(Str("total del costo de ventas"), "50")}

ExpensesBlocks ==
    {<<>>} \cup {NextLine(Str("total for expenses"), num) : num \in {"0", "50", "-100"}}

OtherExpensesBlocks ==
    {<<>>} \cup {NextLine(Str("otros gastos"), num) : num \in {"0", "25"}}

\* a statement: a block of lines, or none, for each metric
StatementTexts ==
    {JoinLines(a \o b \o c \o d \o e) :
        a \in IncomeBlocks, b \in NetIncomeBlocks, c \in CogsBlocks,
        d \in ExpensesBlocks, e \in OtherExpensesBlocks}

\* income and net_income whose quotient is rounded, is an infinity, is a NaN
QuotientBlocks ==
    {<<>>,
     SameLine(Str("total for income"), "3") \o SameLine(Str("net income"), "1"),
     SameLine(Str("total for income"), "7") \o NextLine(Str("net income"), "1e999"),
     NextLine(Str("total for income"), "1e999") \o NextLine(Str("net income"), "1e999")}

\* components whose sum is rounded, cancels by rounding, is a NaN
RoundedBlocks ==
    {NextLine(Str("otros gastos"), "-0.3") \o NextLine(Str("total de gastos"), "0.2")
        \o NextLine(Str("costo de ventas"), "0.1"),
     NextLine(Str("costo de ventas"), "10000000000000000")
        \o NextLine(Str("otros gastos"), "-10000000000000000")
        \o NextLine(Str("total de gastos"), "1"),
     NextLine(Str("costo de ventas"), "1e999") \o NextLine(Str("total de gastos"), "-1e999"),
     NextLine(Str("costo de ventas"), "-0") \o NextLine(Str("total de gastos"), "-0.0")}

\* statements whose numbers are not small integers
RoundedTexts == {JoinLines(a \o b) : a \in QuotientBlocks, b \in RoundedBlocks}

\* what may stand between a label and a number: line boundaries and
\* whitespace other than the space and the line feed
Separators ==
    {<<13, 10>>, <<13>>, <<12>>, <<11>>, <<28>>, <<31>>, <<133>>, <<160>>, <<8232>>, <<9>>}

\* labels with other whitespace in them or before them, and with characters
\* that are letters of the phrase only when case is ignored
OddLabels ==
    {Str("Net income"),
     Str("Total de gastos"),
     Str("Net") \o <<9>> \o Str("income"),
     Str("Net ") \o <<305>> \o Str("ncome"),
     Str("NET ") \o <<304>> \o Str("NCOME"),
     Str("Total de ingre") \o <<383>> \o Str("os"),
     <<160>> \o Str("Otros gastos")}

\* numbers float() reads that are not plain decimals, and one it does not
OddNumbers ==
    {Str("5"), Str("1e3"), Str("1_000"), <<1635>>, Str("1.234,5e1"), Str("1e999"), Str("1__0")}

OddTexts ==
    {l \o s \o n : l \in OddLabels, s \in Separators \cup {NL, SP}, n \in OddNumbers}

ExtractTexts ==
    AdjacentTexts \cup LabelLineTexts \cup WindowTexts \cup StatementTexts
    \cup RoundedTexts \cup OddTexts

\* the tokens parse_amount is called with
Numerals ==
    Literals \cup
    {Str("1.234.567,8"), Str("1234.567,8"), Str("1.23,5"), Str("1,200"), Str("12.5"),
     Str("7"), Str("1.2.3"), Str("Q1"), <<>>,
     Str("1e5"), Str("1E-2"), Str("1_000"), Str("1__0"), Str("1.234,5e1"),
     Str("inf"), Str("Infinity"), Str("NaN"), Str("1e999"), Str("0.1"), Str("0"),
     Str("9007199254740993"), Str("1.7976931348623159e308"), Str("2.5e-324"),
     <<1633, 46, 1634, 1635, 1636, 44, 1637>>, <<1635>>}

Affixes ==
    Glyphs \cup {Str(" "), Str("-"), Str("$-"), <<45, 8364>>, Str(" $"), <<13>>, <<160>>, <<31>>}

Tokens ==
    {a \o n \o b : a \in Affixes, n \in Numerals, b \in Glyphs \cup {Str(" "), <<12>>, <<28>>}}

\* the lines scan_for_number is called with
ScanLines ==
    {<<>>,
     Str("100"),
     Str("500"),
     Str("-500"),
     Str("Q1 $42 1.2.3 x"),
     Str(" -500.0 7 1e3"),
     <<55, 160, 49, 95, 48, 48, 48, 31, 1635, 36, 12>>}

RECURSIVE SeqsUpTo(_, _)
\* the sequences of at most n elements of S
SeqsUpTo(S, n) ==
    IF n = 0 THEN {<<>>}
    ELSE LET shorter == SeqsUpTo(S, n - 1)
         IN  shorter \cup {<<x>> \o t : x \in S, t \in {u \in shorter : Len(u) = n - 1}}

\* the lines after no blank line or after enough of them to lie at the end of
\* a window, and a start index at the head of the list, around its end or
\* past it
ScanInputs ==
    {[ls |-> [j \in 1..pad |-> <<>>] \o body, start |-> st] :
        pad \in {0} \cup (Window - 2)..MaxPad,
        body \in SeqsUpTo(ScanLines, MaxBody),
        st \in {0, 1, 2, MaxPad, MaxPad + 1}}

---------------------------------------------------------------------------
(* Specifications *)

Init == \E t \in ExtractTexts : ExtractCall(t)

Next == ExtractNext

Spec == Init /\ [][Next]_vars

InitParse == \E t \in Tokens : ParseCall(t)

SpecParse == InitParse /\ [][ParseAmount]_vars

InitScan == \E in \in ScanInputs : ScanCall(in.ls, in.start)

SpecScan == InitScan /\ [][ScanForNumber]_vars

---------------------------------------------------------------------------
(* Claims about scan_for_number, under SpecScan *)

\* the tokens scan_for_number splits a line into
TokensOfLine(line) == SplitWhitespace(StripCurrency(strip(line)))

\* the places <<line index, token number>> of the parseable digit-containing
\* tokens of the lines start .. start + 9
Candidates(ls, start) ==
    {c \in UNION {{<<j, t>> : t \in 1..Len(TokensOfLine(ls[j + 1]))} :
                    j \in {n \in start..(start + Window - 1) : n < Len(ls)}} :
        /\ HasDigit(TokensOfLine(ls[c[1] + 1])[c[2]])
        /\ parse_amount(TokensOfLine(ls[c[1] + 1])[c[2]]) # None}

CandidateValue(ls, c) == parse_amount(TokensOfLine(ls[c[1] + 1])[c[2]])

Earlier(c, d) == c[1] < d[1] \/ (c[1] = d[1] /\ c[2] < d[2])

\* C2: scan_for_number returns the value of greatest magnitude among the
\* parseable digit-containing tokens of the lines start_index ..
\* start_index + 9, the earliest one when several share that magnitude, and
\* None exactly when the window holds no such token.
C2_GreatestMagnitudeFirst ==
    pc = "located" =>
        LET cs == Candidates(lines, start_index)
        IN  IF cs = {} THEN value = None
            ELSE \E c \in cs :
                    /\ value = CandidateValue(lines, c)
                    /\ \A d \in cs :
                          /\ ~AbsLess(value, CandidateValue(lines, d))
                          /\ Earlier(d, c) => AbsLess(CandidateValue(lines, d), value)

\* a call whose window holds 500 and, after it, -500
C2_Witness ==
    /\ pc = "located"
    /\ value = FromInt(500)
    /\ \E c, d \in Candidates(lines, start_index) :
          /\ Earlier(c, d)
          /\ CandidateValue(lines, c) = FromInt(500)
          /\ CandidateValue(lines, d) = FromInt(-500)

---------------------------------------------------------------------------
(* Claims about parse_amount, under SpecParse *)

\* the parser C4 describes: currency glyphs are removed before the
\* separator convention is decided
ReferenceAmount(s) ==
    LET t     == StripCurrency(strip(s))
        clean == IF EuropeanFormat(t)
                 THEN replace(replace(t, 46, <<>>), 44, <<46>>)
                 ELSE replace(t, 44, <<>>)
    IN  float(clean)

\* C4: parse_amount returns what the reference returns: whitespace stripped
\* and every currency glyph removed first, then the European form (periods
\* removed, comma as decimal point) or else all commas removed, then the
\* decimal number, or None.
C4_ParseAmountIsReference ==
    pc = "parsed" => amount = ReferenceAmount(text)

---------------------------------------------------------------------------
(* Claims about extract_metrics_from_text, under Spec *)

\* a and b are the same but for the case of the letters a to z, b being in
\* lower case
SameIgnoringCase(a, b) ==
    /\ Len(a) = Len(b)
    /\ \A j \in 1..Len(b) : a[j] \in {b[j], UpperChar(b[j])}

\* line, with leading whitespace and letter case set aside, begins with an
\* accepted phrase of key
BeginsWithPhrase(line, key) ==
    \E ph \in Phrases(key) : \E a \in 0..Len(line) :
        /\ \A j \in 1..a : IsSpace(line[j])
        /\ a + Len(ph) <= Len(line)
        /\ SameIgnoringCase(SubSeq(line, a + 1, a + Len(ph)), ph)

\* an accepted phrase of key stands at position p of t, letter case ignored
\* the way the patterns ignore it
PhraseAt(t, p, key) ==
    \E ph \in Phrases(key) :
        /\ p + Len(ph) - 1 <= Len(t)
        /\ \A j \in 1..Len(ph) : t[p + j - 1] \in CaseClass(ph[j])

\* an accepted phrase of key stands somewhere in t, a run of whitespace
\* counting as one space
PhraseOccurs(t, key) ==
    \E p \in 1..Len(CollapseWhitespace(t)) : PhraseAt(CollapseWhitespace(t), p, key)

Components == {"cogs", "expenses", "other_expenses"}

\* v is what the Value Locator is to return for the window that starts at
\* line start: the first of the candidates of greatest magnitude
IsLocatorResult(v, ls, start) ==
    \E c \in Candidates(ls, start) :
        /\ v = CandidateValue(ls, c)
        /\ \A d \in Candidates(ls, start) :
              /\ ~AbsLess(v, CandidateValue(ls, d))
              /\ Earlier(d, c) => AbsLess(CandidateValue(ls, d), v)

\* C1: within one run a metric that has a value keeps it through every
\* later step.
C1_ResolvedIsKept ==
    [][\A key \in KeySet : metrics[key] # None => metrics'[key] = metrics[key]]_vars

\* the scan stands at a later label line of cogs, already resolved, whose
\* own window would give another value
C1_Witness ==
    /\ pc = "scan"
    /\ MetricKeys[k] = "cogs"
    /\ metrics["cogs"] # None
    /\ BeginsWithPhrase(lines[i + 1], "cogs")
    /\ Candidates(lines, i + 1) # {}
    /\ ~IsLocatorResult(metrics["cogs"], lines, i + 1)

\* the label lines of key whose window holds a parseable number (indices
\* from 0)
FruitfulLabels(ls, key) ==
    {j \in 0..(Len(ls) - 1) :
        BeginsWithPhrase(ls[j + 1], key) /\ Candidates(ls, j + 1) # {}}

\* C10: cogs, expenses and other_expenses are unresolved after the
\* direct-adjacency step, and at the end each is unresolved when no label
\* line of it has a number in its window, and otherwise holds the Value
\* Locator's result for the window that starts right after the earliest such
\* label line.
C10_ComponentsFromLineScan ==
    /\ pc \in {"regex", "fallback"} => \A key \in Components : metrics[key] = None
    /\ pc = "done" =>
          \A key \in Components :
              IF FruitfulLabels(lines, key) = {} THEN metrics[key] = None
              ELSE IsLocatorResult(metrics[key], lines,
                                   SetMin(FruitfulLabels(lines, key)) + 1)

\* expenses resolved from its second label line, the window of the first
\* holding no number
C10_Witness ==
    /\ pc = "done"
    /\ metrics["expenses"] # None
    /\ \E j \in 0..(Len(lines) - 1) :
          /\ BeginsWithPhrase(lines[j + 1], "expenses")
          /\ j < SetMin(FruitfulLabels(lines, "expenses"))

Resolved(key) == metrics[key] # None

\* a component as a float, 0.0 when unresolved
Component(key) == IF Resolved(key) THEN metrics[key] ELSE Zero

\* the float sum of the three components, added in the order written
ComponentSum ==
    FAdd(FAdd(Component("cogs"), Component("expenses")), Component("other_expenses"))

\* the float x is an integer of at most 20 binary digits
IsSmallInteger(x) == IsFinite(x) /\ x.e >= 0 /\ BBitLen(x.m) + x.e <= 20

\* the integer a small integer float is
IntegerOf(x) ==
    (IF x.s = 1 THEN -1 ELSE 1) * (BDigit(x.m, 1) + Limb * BDigit(x.m, 2)) * 2^x.e

\* a and b are the same float, or both a zero
SameNumber(a, b) == a = b \/ (IsZero(a) /\ IsZero(b))

MarginComputable ==
    Resolved("income") /\ ~IsZero(metrics["income"]) /\ Resolved("net_income")

\* C5: the result holds income and net_income iff resolved (0 included),
\* each of cogs, expenses, other_expenses iff resolved and non-zero,
\* total_expenses iff the sum of the three is non-zero, margin iff it is
\* computable, and no other key.
C5_OutputKeys ==
    pc = "done" =>
        DOMAIN result =
            {key \in {"income", "net_income"} : Resolved(key)}
            \cup {key \in Components : Resolved(key) /\ ~IsZero(metrics[key])}
            \cup (IF ~IsZero(ComponentSum) THEN {"total_expenses"} ELSE {})
            \cup (IF MarginComputable THEN {"margin"} ELSE {})

\* cogs and net_income both resolved to 0: the one left out, the other kept
C5_Witness ==
    /\ pc = "done"
    /\ metrics["cogs"] = Zero
    /\ metrics["net_income"] = Zero
    /\ "cogs" \notin DOMAIN result
    /\ "net_income" \in DOMAIN result

\* C6: total_expenses is cogs + expenses + other_expenses, an unresolved
\* component counting as zero (the float sum, which is the exact sum when
\* the components are small integers); margin is defined exactly when income
\* is resolved and non-zero and net_income is resolved, and is then
\* net_income / income * 100; no division by zero is made.
C6_DerivedMetrics ==
    pc \in {"done", "raised"} =>
        /\ margin # ZeroDivisionError
        /\ total_expenses # None
        /\ SameNumber(total_expenses, ComponentSum)
        /\ (\A key \in Components : IsSmallInteger(Component(key)))
              => /\ IsSmallInteger(total_expenses)
                 /\ IntegerOf(total_expenses) =
                        IntegerOf(Component("cogs")) + IntegerOf(Component("expenses"))
                        + IntegerOf(Component("other_expenses"))
        /\ margin # None <=> MarginComputable
        /\ margin # None =>
              margin = FMul(FDiv(metrics["net_income"], metrics["income"]), FromInt(100))

\* the derived totals of cogs 100, expenses 50, other_expenses 25, income
\* 1000 and net_income 100
C6_Witness ==
    /\ pc = "done"
    /\ metrics["cogs"] = FromInt(100)
    /\ metrics["expenses"] = FromInt(50)
    /\ metrics["other_expenses"] = FromInt(25)
    /\ metrics["income"] = FromInt(1000)
    /\ metrics["net_income"] = FromInt(100)
    /\ total_expenses = FromInt(175)
    /\ margin = FromInt(10)

\* C8: no run raises; in the mapping a run ends with, a metric whose phrases
\* stand nowhere in the text, or that is left unresolved, has no key in it,
\* and no key holds None; when net_income is resolved and no phrase of
\* another metric stands in the text, the mapping has exactly the key
\* net_income.
C8_AbsenceIsAbsentKey ==
    /\ pc # "raised"
    /\ pc = "done" =>
          /\ \A key \in KeySet :
                ~PhraseOccurs(text, key) \/ ~Resolved(key) => key \notin DOMAIN result
          /\ \A key \in DOMAIN result : result[key] # None
          /\ (Resolved("net_income")
              /\ \A key \in KeySet \ {"net_income"} : ~PhraseOccurs(text, key))
                => DOMAIN result = {"net_income"}

\* a text with only a net_income label and its value
C8_Witness ==
    /\ pc = "done"
    /\ Resolved("net_income")
    /\ \A key \in KeySet \ {"net_income"} : ~PhraseOccurs(text, key)
    /\ DOMAIN result = {"net_income"}

\* the places <<line index, token number>> of the tokens that hold a digit
DigitTokens(ls) ==
    UNION {{<<j, t>> : t \in {u \in 1..Len(SplitWhitespace(strip(ls[j + 1]))) :
                                HasDigit(SplitWhitespace(strip(ls[j + 1]))[u])}} :
           j \in 0..(Len(ls) - 1)}

LabelLinesOf(ls, key) == {j \in 0..(Len(ls) - 1) : BeginsWithPhrase(ls[j + 1], key)}

\* the text has one label line for key and one numeric token, which lies
\* 11 or more lines after the label line
OutOfWindow(ls, key) ==
    /\ Cardinality(LabelLinesOf(ls, key)) = 1
    /\ Cardinality(DigitTokens(ls)) = 1
    /\ \A c \in DigitTokens(ls) : \A j \in LabelLinesOf(ls, key) : c[1] >= j + Window + 1

\* a number, with its optional "$" and "-", begins at position r of t
NumberBeginsAt(t, r) ==
    \E n \in 0..2 :
        /\ r + n <= Len(t)
        /\ IsAsciiDigit(t[r + n])
        /\ SubSeq(t, r, r + n - 1) \in {<<>>, Str("$"), Str("-"), Str("$-")}

\* somewhere in t, a run of whitespace counting as one space, an accepted
\* phrase of key is followed by a number with nothing but whitespace in
\* between
DirectlyFollowed(t, key) ==
    LET flat == CollapseWhitespace(t)
    IN  \E ph \in Phrases(key) : \E p \in 1..Len(flat) :
            /\ p + Len(ph) - 1 <= Len(flat)
            /\ \A j \in 1..Len(ph) : flat[p + j - 1] \in CaseClass(ph[j])
            /\ \E r \in (p + Len(ph))..Len(flat) :
                  /\ \A j \in (p + Len(ph))..(r - 1) : IsSpace(flat[j])
                  /\ NumberBeginsAt(flat, r)

\* C3 as stated: for each of the five metrics a value 11 or more lines after
\* the one label line is never picked up, whatever the lines in between.
C3_NeverPickedUp ==
    pc = "done" =>
        \A key \in KeySet :
            OutOfWindow(lines, key) => metrics[key] = None /\ key \notin DOMAIN result

\* C3 amended: the same for cogs, expenses and other_expenses, and for income
\* and net_income when no accepted phrase of the metric is followed by the
\* number with nothing but whitespace (blank lines) in between.
C3_OutsideWindowUnresolved ==
    pc = "done" =>
        \A key \in KeySet :
            /\ OutOfWindow(lines, key)
            /\ key \in {"income", "net_income"} => ~DirectlyFollowed(text, key)
            => metrics[key] = None /\ key \notin DOMAIN result

\* cogs with its value on the 11th line after the label, blank lines between
C3_Witness ==
    /\ pc = "done"
    /\ OutOfWindow(lines, "cogs")
    /\ DigitTokens(lines) = {<<Window + 1, 1>>}
    /\ \A j \in 2..(Window + 1) : lines[j] = <<>>
    /\ metrics["cogs"] = None
    /\ "cogs" \notin DOMAIN result

\* s is a signed numeric literal: [-]?[0-9][0-9.,]*
IsSignedLiteral(s) ==
    LET body == IF s # <<>> /\ s[1] = 45 THEN Tail(s) ELSE s
    IN  /\ body # <<>>
        /\ IsAsciiDigit(body[1])
        /\ \A j \in 1..Len(body) : IsAsciiDigit(body[j]) \/ body[j] \in {46, 44}

\* C7: a text that is the one line '<phrase> <glyph><literal>', for an
\* accepted phrase of income or net_income in any letter case, any of the
\* glyphs (or none) and a signed numeric literal, resolves the metric to
\* parse_amount(<literal>).
C7_LabelGlyphLiteral ==
    pc = "done" =>
        \A key \in {"income", "net_income"} : \A ph \in Phrases(key) : \A g \in Glyphs :
            LET n == Len(ph) + 1 + Len(g)
            IN  /\ Len(text) > n
                /\ SameIgnoringCase(SubSeq(text, 1, Len(ph)), ph)
                /\ text[Len(ph) + 1] = 32
                /\ SubSeq(text, Len(ph) + 2, n) = g
                /\ IsSignedLiteral(SubSeq(text, n + 1, Len(text)))
                => /\ metrics[key] # None
                   /\ metrics[key] = parse_amount(SubSeq(text, n + 1, Len(text)))

Punctuation == {Str(":"), Str("-"), Str(" -"), Str("- "), Str(" :"), Str(": ")}

\* line is an accepted phrase of key, in any letter case, with a colon or a
\* dash directly after it
PunctuationAfter(line, key) ==
    \E ph \in Phrases(key) : \E x \in Punctuation : SameIgnoringCase(line, ph \o x)

\* line is an accepted phrase of key, in any letter case, with a colon or a
\* dash directly before it
PunctuationBefore(line, key) ==
    \E ph \in Phrases(key) : \E x \in Punctuation : SameIgnoringCase(line, x \o ph)

\* the line scan is about to test line i against key k
Testing == pc = "scan" /\ metrics[MetricKeys[k]] = None

\* C9 as stated: the line scan takes a line for a label of a metric exactly
\* when the line begins with an accepted phrase, and also when a colon or a
\* dash stands directly after or directly before the phrase.
C9_PunctuationTolerant ==
    [][Testing =>
          /\ pc' = "locate" <=> BeginsWithPhrase(lines[i + 1], MetricKeys[k])
          /\ PunctuationAfter(lines[i + 1], MetricKeys[k]) => pc' = "locate"
          /\ PunctuationBefore(lines[i + 1], MetricKeys[k]) => pc' = "locate"]_vars

\* C9 amended: the line scan takes a line for a label of a metric exactly
\* when the line begins with an accepted phrase; a colon or a dash directly
\* after the phrase does not prevent that, one directly before it does.
C9_PrefixMatchOnly ==
    [][Testing =>
          /\ pc' = "locate" <=> BeginsWithPhrase(lines[i + 1], MetricKeys[k])
          /\ PunctuationAfter(lines[i + 1], MetricKeys[k]) => pc' = "locate"
          /\ PunctuationBefore(lines[i + 1], MetricKeys[k]) => pc' # "locate"]_vars

\* a run over a line with a dash or colon before the expenses phrase and a
\* number on the next line: the metric is left unresolved
C9_Witness ==
    /\ pc = "done"
    /\ Len(lines) = 2
    /\ PunctuationBefore(lines[1], "expenses")
    /\ Candidates(lines, 1) # {}
    /\ metrics["expenses"] = None
=============================================================================
